---- MODULE Spec2Model ----
(***************************************************************************)
(* GitHub PR Review Agent (FastAPI backend).                               *)
(*                                                                         *)
(* src/main.py     : the HTTP handlers, the process-wide session map and   *)
(*                   extract_pr_info.                                      *)
(* src/groq_api.py : the LLM call, fence stripping and JSON parsing.       *)
(*                                                                         *)
(* Python strings are modelled as sequences of text pieces (a piece is a   *)
(* run of characters that the code's tests never split), so that strip,    *)
(* lstrip, startswith, re.match and re.sub are computed piece by piece.    *)
(***************************************************************************)
EXTENDS Integers, Sequences, FiniteSets, TLC

(***************************************************************************)
(* Bounds of the model.                                                    *)
(***************************************************************************)
\* longest run of whitespace / "@" pieces put around a URL
MaxPad == 2
\* longest pull-request number, in digits
MaxDigits == 2
\* concurrent POST /api/review-pr requests
NumRequests == 2
\* OAuth callbacks
NumCallbacks == 1
\* GitHub users that log in
NumUsers == 1

(***************************************************************************)
(* Text helpers.                                                           *)
(***************************************************************************)
Range(s) == {s[i] : i \in 1..Len(s)}

SeqsUpTo(S, n) == UNION {[1..k -> S] : k \in 0..n}

\* the whitespace pieces str.strip() removes
Whitespace == {" ", "\n"}

\* s[i..] (empty when i > Len(s))
Drop(s, i) == SubSeq(s, i, Len(s))

RECURSIVE LStripSet(_, _)
LStripSet(s, chars) ==
    IF s # <<>> /\ Head(s) \in chars THEN LStripSet(Tail(s), chars) ELSE s

RECURSIVE RStripSet(_, _)
RStripSet(s, chars) ==
    IF s # <<>> /\ s[Len(s)] \in chars
    THEN RStripSet(SubSeq(s, 1, Len(s) - 1), chars)
    ELSE s

\* str.strip(): leading and trailing whitespace removed
Strip(s) == RStripSet(LStripSet(s, Whitespace), Whitespace)

\* str.startswith(prefix)
StartsWith(s, prefix) ==
    Len(s) >= Len(prefix) /\ SubSeq(s, 1, Len(prefix)) = prefix

(***************************************************************************)
(* extract_pr_info (src/main.py:69-90).                                    *)
(*                                                                         *)
(* URL pieces: "github.com", "www.", "http:", "https:", "/", "pull",       *)
(* letters, digits, " " and "@".  "/" is the only piece holding a slash    *)
(* and the digit pieces are the only ones \d matches.                      *)
(***************************************************************************)
Digits == {"0", "7"}

DigitVal(d) == IF d = "7" THEN 7 ELSE 0

\* int(text) of a run of digit pieces, base 10
RECURSIVE ParseInt(_)
ParseInt(ds) ==
    IF ds = <<>> THEN 0
    ELSE 10 * ParseInt(SubSeq(ds, 1, Len(ds) - 1)) + DigitVal(ds[Len(ds)])

\* the longest prefix of s whose pieces are all in (or all outside) a class
RECURSIVE TakeWhileIn(_, _)
TakeWhileIn(s, S) ==
    IF s # <<>> /\ Head(s) \in S THEN <<Head(s)>> \o TakeWhileIn(Tail(s), S) ELSE <<>>

RECURSIVE TakeWhileNotIn(_, _)
TakeWhileNotIn(s, S) ==
    IF s # <<>> /\ Head(s) \notin S
    THEN <<Head(s)>> \o TakeWhileNotIn(Tail(s), S)
    ELSE <<>>

\* the literal heads of the patterns (https? is two heads), in the order the code tries them
patterns ==
    << <<"github.com", "/">>,
       <<"http:", "/", "/", "github.com", "/">>,
       <<"https:", "/", "/", "github.com", "/">>,
       <<"www.", "github.com", "/">> >>

NoMatch == [ok |-> FALSE, owner |-> <<>>, repo |-> <<>>, number |-> 0]

\* re.match(head ([^/]+)/([^/]+)/pull/(\d+), s): anchored at the start only
ReMatch(head, s) ==
    IF ~StartsWith(s, head) THEN NoMatch
    ELSE LET s1    == Drop(s, Len(head) + 1)
             owner == TakeWhileNotIn(s1, {"/"})
             s2    == Drop(s1, Len(owner) + 1)
             repo  == TakeWhileNotIn(Drop(s2, 2), {"/"})
             s3    == Drop(s2, Len(repo) + 2)
             num   == TakeWhileIn(Drop(s3, 4), Digits)
         IN  IF /\ owner # <<>>
                /\ s2 # <<>> /\ Head(s2) = "/"
                /\ repo # <<>>
                /\ StartsWith(s3, <<"/", "pull", "/">>)
                /\ num # <<>>
             THEN [ok |-> TRUE, owner |-> owner, repo |-> repo, number |-> ParseInt(num)]
             ELSE NoMatch

RECURSIVE FirstMatch(_, _)
FirstMatch(i, s) ==
    IF i > Len(patterns) THEN NoMatch
    ELSE IF ReMatch(patterns[i], s).ok THEN ReMatch(patterns[i], s)
    ELSE FirstMatch(i + 1, s)

\* a plausible slip: the "@" is stripped before the whitespace
extract_pr_info_StripOrder(pr_url) ==
    FirstMatch(1, Strip(LStripSet(pr_url, {"@"})))

\* ok = FALSE stands for the HTTPException(400) of line 87
extract_pr_info(pr_url) ==
    FirstMatch(1, LStripSet(Strip(pr_url), {"@"}))

(***************************************************************************)
(* JSON values.  A JSON text is kept as written (a string such as "90" or  *)
(* "[issue]"); numbers are kept by numeric value, so 0 and 0.0 are "0".    *)
(* A parsed document is [kind, fields, str]: an object with its fields, a  *)
(* JSON string with its text, or an array.                                 *)
(***************************************************************************)
EmptyDict == [k \in {} |-> ""]

JsonStrings == {"\"ok\"", "\"Review completed\""}
JsonArrays  == {"[]", "[issue]"}
JsonNumbers == {"90", "0"}

FieldValues(k) ==
    CASE k = "review"       -> {"\"ok\""}
      [] k = "errors"       -> {"[issue]", "null"}
      [] k = "review_score" -> {"90"}

ReplyFields == {"review", "errors", "review_score"}

\* every object with any subset of the three reply fields
ObjectDocs ==
    {[kind |-> "object", fields |-> f, str |-> <<>>] :
        f \in {g \in UNION {[K -> JsonStrings \cup JsonArrays \cup JsonNumbers \cup {"null"}] :
                              K \in SUBSET ReplyFields} :
                 \A k \in DOMAIN g : g[k] \in FieldValues(k)}}

FullDoc ==
    [kind |-> "object",
     fields |-> [k \in ReplyFields |->
                    IF k = "review" THEN "\"ok\""
                    ELSE IF k = "errors" THEN "[issue]" ELSE "90"],
     str |-> <<>>]

OtherDocs ==
    {[kind |-> "array",  fields |-> EmptyDict, str |-> <<>>],
     [kind |-> "string", fields |-> EmptyDict, str |-> <<"Error:", " quota">>],
     [kind |-> "string", fields |-> EmptyDict, str |-> <<"fine">>]}

(***************************************************************************)
(* groq_api.review_pull_request (src/groq_api.py:57-68).                   *)
(*                                                                         *)
(* A reply text is a sequence of the pieces "FENCE" (the three backquotes  *)
(* of a Markdown code fence), "json", "\n", " ", "prose" and "DOC"; "DOC"   *)
(* stands for one complete JSON document, whose value travels beside the   *)
(* text.                                                                   *)
(***************************************************************************)
\* re.sub of line 63 with re.MULTILINE: FENCE "json" at the start of a line, or
\* FENCE at the end of a line, is removed; scanning from piece i
RECURSIVE ReSubFences(_, _)
ReSubFences(s, i) ==
    IF i > Len(s) THEN <<>>
    ELSE LET lineStart == i = 1 \/ s[i - 1] = "\n"
             lineEnd   == i = Len(s) \/ s[i + 1] = "\n"
         IN  IF s[i] = "FENCE" /\ lineStart /\ i < Len(s) /\ s[i + 1] = "json"
             THEN ReSubFences(s, i + 2)
             ELSE IF s[i] = "FENCE" /\ lineEnd
             THEN ReSubFences(s, i + 1)
             ELSE <<s[i]>> \o ReSubFences(s, i + 1)

\* line 63: json_str
StripFences(raw) == Strip(ReSubFences(Strip(raw), 1))

\* json.loads: exactly one document, whitespace around it allowed
JsonLoadsOk(text) == Strip(text) = <<"DOC">>

ResultError(msg) == [type |-> "str", str |-> <<"Error:", " ", msg>>, dict |-> EmptyDict]

\* a plausible slip: a failure returned as an empty review
groq_review_pull_request_EmptyOnError(completion) ==
    IF /\ completion.kind = "reply"
       /\ JsonLoadsOk(StripFences(completion.text))
       /\ completion.doc.kind = "object"
    THEN [type |-> "dict", str |-> <<>>, dict |-> completion.doc.fields]
    ELSE [type |-> "dict", str |-> <<>>, dict |-> EmptyDict]

\* completion: what client.chat.completions.create did: raised in transport,
\* raised on a non-2xx response, or returned a reply text
groq_review_pull_request(completion) ==
    IF completion.kind # "reply" THEN ResultError(completion.kind)
    ELSE IF ~JsonLoadsOk(StripFences(completion.text)) THEN ResultError("JSONDecodeError")
    ELSE CASE completion.doc.kind = "object" ->
                [type |-> "dict", str |-> <<>>, dict |-> completion.doc.fields]
           [] completion.doc.kind = "string" ->
                [type |-> "str", str |-> completion.doc.str, dict |-> EmptyDict]
           [] OTHER ->
                [type |-> "other", str |-> <<>>, dict |-> EmptyDict]

(***************************************************************************)
(* Responses.  status 0: no response yet.  detail: the pieces of an        *)
(* HTTPException's detail.  body: the fields of a 200 response.            *)
(***************************************************************************)
NoResp == [status |-> 0, detail |-> <<>>, body |-> EmptyDict]

HttpError(code, detail) == [status |-> code, detail |-> detail, body |-> EmptyDict]

\* dict.get(key, default)
Get(d, key, default) == IF key \in DOMAIN d THEN d[key] ELSE default

\* PRReviewResponse(**formatted_result) (src/main.py:60-64): pydantic accepts
\* a string summary, a list of issues and a number or None as score
Validates(formatted) ==
    /\ formatted["summary"] \in JsonStrings
    /\ formatted["issues"] \in JsonArrays
    /\ formatted["suggestions"] \in JsonArrays
    /\ formatted["score"] \in JsonNumbers \cup {"null"}

ResponseFields == {"summary", "issues", "suggestions", "score"}

\* line 279: review_result['pr_number'] = pr_number
WithPrNumber(d, pr_number) ==
    [k \in DOMAIN d \cup {"pr_number"} |->
        IF k = "pr_number" THEN ToString(pr_number) ELSE d[k]]

\* lines 282-287: formatted_result
FormatResult(d) ==
    [k \in ResponseFields |->
        CASE k = "summary"     -> Get(d, "review", "\"Review completed\"")
          [] k = "issues"      -> Get(d, "errors", "[]")
          [] k = "suggestions" -> "[]"
          [] k = "score"       -> Get(d, "review_score", "0")]

\* lines 274-289: the handler after the LLM call returned review_result.
\* Item assignment on a str or a list raises TypeError, and a response that
\* does not validate raises too: the framework answers 500 to both.
ReviewResponse(review_result, pr_number) ==
    IF review_result.type = "str" /\ StartsWith(review_result.str, <<"Error:">>)
    THEN HttpError(500, <<"Groq API error: ">> \o review_result.str)
    ELSE IF review_result.type # "dict"
    THEN HttpError(500, <<"Internal Server Error">>)
    ELSE IF ~Validates(FormatResult(WithPrNumber(review_result.dict, pr_number)))
    THEN HttpError(500, <<"Internal Server Error">>)
    ELSE [status |-> 200, detail |-> <<>>,
          body |-> FormatResult(WithPrNumber(review_result.dict, pr_number))]

(***************************************************************************)
(* The service: inputs.                                                    *)
(***************************************************************************)
Requests  == 1..NumRequests
Callbacks == 1..NumCallbacks

\* user ids as GitHub renders them in JSON
UserIds == {ToString(i) : i \in 1..NumUsers}

AccessTokens == {<<"gho_A">>, <<"gho_B">>}

UserData(id) == [k \in {"id", "login"} |-> IF k = "id" THEN id ELSE "\"octocat\""]

\* line 155: f"session_{user_data['id']}"
SessionId(user_data) == <<"session_", user_data["id"]>>

\* Optional[str]: None is present = FALSE
NoneToken == [present |-> FALSE, s |-> <<>>]
Str(s)    == [present |-> TRUE, s |-> s]

TokenInputs ==
    {NoneToken, Str(<<>>), Str(<<"session_", "x">>), Str(<<"ghp_raw">>),
     Str(<<"x", "session_", "1">>)}
    \cup {Str(<<"session_", id>>) : id \in UserIds}

ValidUrl == <<"https:", "/", "/", "github.com", "/", "a", "/", "B", "/", "pull", "/", "7">>

UrlInputs == {ValidUrl, <<"not a url">>}

\* an HTTP response of GitHub: status and body (a JSON object or other text)
NoHttp == [status |-> 0, kind |-> "none", fields |-> EmptyDict]

GhStatuses == {200, 401, 404}

GhBodies ==
    {[kind |-> "object", fields |-> [k \in {"message"} |-> "Not Found"]],
     [kind |-> "object", fields |-> EmptyDict],
     [kind |-> "text",   fields |-> EmptyDict]}

\* the PR-details fetch answers JSON, or (a proxy, an outage) other text
PrResponses ==
    {[status |-> st, kind |-> b.kind, fields |-> b.fields] : st \in GhStatuses, b \in GhBodies}
    \ {[status |-> 200, kind |-> "object", fields |-> [k \in {"message"} |-> "Not Found"]]}

\* the diff fetch answers the diff text, or an error as the PR-details fetch does
DiffResponses ==
    {[status |-> 200, kind |-> "text", fields |-> EmptyDict]}
    \cup {rsp \in PrResponses : rsp.status # 200 /\ "message" \in DOMAIN rsp.fields}

NoDoc == [kind |-> "none", fields |-> EmptyDict, str |-> <<>>]

NoCompletion == [kind |-> "none", text |-> <<>>, doc |-> NoDoc]

FencedTexts ==
    {<<"FENCE", "json", "\n", "DOC", "\n", "FENCE">>,
     <<"FENCE", "\n", "DOC", "\n", "FENCE">>,
     <<"FENCE", "json", "DOC", "FENCE">>,
     <<"FENCE", "DOC", "FENCE">>}

\* what the LLM call can do: fail in transport, answer non-2xx, or reply
Completions ==
    {[kind |-> "transport", text |-> <<>>, doc |-> NoDoc],
     [kind |-> "http_error", text |-> <<>>, doc |-> NoDoc]}
    \cup {[kind |-> "reply", text |-> <<"DOC">>, doc |-> d] : d \in ObjectDocs \cup OtherDocs}
    \cup {[kind |-> "reply", text |-> t, doc |-> FullDoc] : t \in FencedTexts}
    \cup {[kind |-> "reply", text |-> t, doc |-> NoDoc] :
            t \in {<<"prose">>, <<>>, <<"DOC", "\n", "prose">>}}

(***************************************************************************)
(* The service: state.                                                     *)
(***************************************************************************)
VARIABLES
    sessions,        \* src/main.py:67, session id -> [access_token, user]
    client_secret,   \* GITHUB_CLIENT_SECRET is set (line 29)
    loop,            \* the request whose handler holds the event loop, or 0
    pc,              \* review_pull_request: where each request is
    pr_url,          \* request.pr_url
    github_token,    \* request.github_token
    ref,             \* owner, repo, pr_number (line 219)
    headers,         \* line 224
    pr_response,     \* line 246
    diff_response,   \* line 261
    completion,      \* what the LLM call did (groq_api.py:58)
    resp,            \* the HTTP response of the request
    calls,           \* the outbound calls the request made, in order
    cb_pc,           \* github_callback: where each callback is
    cb_access_token, \* line 141
    cb_resp,         \* the HTTP response of the callback
    user_reply,      \* the response of the latest GET /api/user
    url_parts,       \* extract_pr_info called alone: how its argument is written,
    url_arg,         \* its argument
    url_result       \* and its result

review_vars == <<pc, pr_url, github_token, ref, headers, pr_response, diff_response,
                 completion, resp, calls>>
cb_vars     == <<cb_pc, cb_access_token, cb_resp>>
parse_vars  == <<url_parts, url_arg, url_result>>
vars == <<sessions, client_secret, loop, review_vars, cb_vars, user_reply, parse_vars>>

NoSessions == [h \in {} |-> [access_token |-> <<>>, user |-> EmptyDict]]

Pending == [done |-> FALSE, ok |-> FALSE, owner |-> <<>>, repo |-> <<>>, number |-> 0]

InitService ==
    /\ sessions = NoSessions
    /\ client_secret \in BOOLEAN
    /\ loop = 0
    /\ pc = [r \in Requests |-> "idle"]
    /\ pr_url = [r \in Requests |-> <<>>]
    /\ github_token = [r \in Requests |-> NoneToken]
    /\ ref = [r \in Requests |-> NoMatch]
    /\ headers = [r \in Requests |-> EmptyDict]
    /\ pr_response = [r \in Requests |-> NoHttp]
    /\ diff_response = [r \in Requests |-> NoHttp]
    /\ completion = [r \in Requests |-> NoCompletion]
    /\ resp = [r \in Requests |-> NoResp]
    /\ calls = [r \in Requests |-> <<>>]
    /\ cb_pc = [c \in Callbacks |-> "idle"]
    /\ cb_access_token = [c \in Callbacks |-> <<>>]
    /\ cb_resp = [c \in Callbacks |-> NoResp]
    /\ user_reply = NoResp

NoParts ==
    [pad |-> <<>>, head |-> <<>>, owner |-> <<>>, repo |-> <<>>, word |-> "",
     digits |-> <<>>, tail |-> <<>>]

Init ==
    /\ InitService
    /\ url_parts = NoParts
    /\ url_arg = <<>>
    /\ url_result = Pending

(***************************************************************************)
(* POST /api/review-pr (src/main.py:214-289).  The handler is a coroutine  *)
(* of the one event loop uvicorn.run starts (line 295): it holds the loop  *)
(* from the moment it is scheduled to its next await, and every other      *)
(* handler runs only while the loop is free.  A request slot serves one    *)
(* request after the other.  When the handler returns, the credential      *)
(* (github_token, headers) is dropped; the URL, what the upstreams         *)
(* answered and what the client was sent stay on record until the slot's   *)
(* next request.                                                           *)
(***************************************************************************)
Finish(r, response) ==
    /\ resp' = [resp EXCEPT ![r] = response]
    /\ pc' = [pc EXCEPT ![r] = "done"]
    /\ loop' = 0
    /\ github_token' = [github_token EXCEPT ![r] = NoneToken]
    /\ headers' = [headers EXCEPT ![r] = EmptyDict]

\* the request arrives and its handler is scheduled
ReceiveReview(r) ==
    /\ loop = 0
    /\ pc[r] \in {"idle", "done"}
    /\ \E u \in UrlInputs, t \in TokenInputs :
          /\ pr_url' = [pr_url EXCEPT ![r] = u]
          /\ github_token' = [github_token EXCEPT ![r] = t]
    /\ pc' = [pc EXCEPT ![r] = "parse"]
    /\ loop' = r
    /\ pr_response' = [pr_response EXCEPT ![r] = NoHttp]
    /\ diff_response' = [diff_response EXCEPT ![r] = NoHttp]
    /\ completion' = [completion EXCEPT ![r] = NoCompletion]
    /\ resp' = [resp EXCEPT ![r] = NoResp]
    /\ calls' = [calls EXCEPT ![r] = <<>>]
    /\ ref' = [ref EXCEPT ![r] = NoMatch]
    /\ UNCHANGED <<sessions, client_secret, headers, cb_vars, user_reply, parse_vars>>

\* lines 218-221
ParseUrl(r) ==
    /\ loop = r
    /\ pc[r] = "parse"
    /\ LET m == extract_pr_info(pr_url[r])
       IN  IF m.ok
           THEN /\ ref' = [ref EXCEPT ![r] = m]
                /\ pc' = [pc EXCEPT ![r] = "resolve"]
                /\ UNCHANGED <<resp, loop, github_token, headers>>
           ELSE /\ Finish(r, HttpError(400, <<"Invalid GitHub PR URL">>))
                /\ UNCHANGED ref
    /\ UNCHANGED <<sessions, client_secret, pr_url, pr_response, diff_response, completion,
                   calls, cb_vars, user_reply, parse_vars>>

Resolved(credential) ==
    [ok |-> TRUE, credential |-> credential, error |-> NoResp]

Unresolved(detail) ==
    [ok |-> FALSE, credential |-> <<>>, error |-> HttpError(401, detail)]

\* a plausible slip: the session id itself sent as the credential
ResolveCredential_Verbatim(token, sess) ==
    IF token.present /\ token.s # <<>>
    THEN IF StartsWith(token.s, <<"session_">>) /\ token.s \notin DOMAIN sess
         THEN Unresolved(<<"Invalid session. Please login again.">>)
         ELSE Resolved(token.s)
    ELSE Unresolved(<<"GitHub authentication required. Please login first.">>)

\* lines 223-242
ResolveCredential(token, sess) ==
    IF token.present /\ token.s # <<>>
    THEN IF StartsWith(token.s, <<"session_">>)
         THEN IF token.s \in DOMAIN sess
              THEN Resolved(sess[token.s].access_token)
              ELSE Unresolved(<<"Invalid session. Please login again.">>)
         ELSE Resolved(token.s)
    ELSE Unresolved(<<"GitHub authentication required. Please login first.">>)

\* lines 223-249: the credential, then the PR-details request is sent and awaited
ResolveToken(r) ==
    /\ loop = r
    /\ pc[r] = "resolve"
    /\ LET c == ResolveCredential(github_token[r], sessions)
       IN  IF c.ok
           THEN /\ headers' = [headers EXCEPT
                                 ![r] = [k \in {"Authorization"} |-> <<"token ">> \o c.credential]]
                /\ calls' = [calls EXCEPT ![r] = Append(@, "pr_details")]
                /\ pc' = [pc EXCEPT ![r] = "await_pr"]
                /\ loop' = 0
                /\ UNCHANGED <<resp, github_token>>
           ELSE /\ Finish(r, c.error)
                /\ UNCHANGED calls
    /\ UNCHANGED <<sessions, client_secret, pr_url, ref, pr_response, diff_response, completion,
                   cb_vars, user_reply, parse_vars>>

\* a plausible slip: the 401 branch of line 253 left out
PrDetailsError_No401(response) ==
    IF response.kind # "object"
    THEN HttpError(500, <<"Internal Server Error">>)
    ELSE IF response.status # 200
    THEN HttpError(400, <<"Failed to fetch PR details: ",
                          Get(response.fields, "message", "Unknown error")>>)
    ELSE NoResp

\* lines 253-258; NoResp: the handler goes on.  A body that is not JSON makes
\* pr_response.json() raise, which the framework answers with 500.
PrDetailsError(response) ==
    IF response.status = 401
    THEN HttpError(401, <<"GitHub authentication failed. Please login again.">>)
    ELSE IF response.kind # "object"
    THEN HttpError(500, <<"Internal Server Error">>)
    ELSE IF response.status # 200
    THEN HttpError(400, <<"Failed to fetch PR details: ",
                          Get(response.fields, "message", "Unknown error")>>)
    ELSE NoResp

\* lines 246-264: the PR-details response arrives; the diff request is sent
PrDetailsResponse(r) ==
    /\ loop = 0
    /\ pc[r] = "await_pr"
    /\ \E response \in PrResponses :
          /\ pr_response' = [pr_response EXCEPT ![r] = response]
          /\ IF PrDetailsError(response) # NoResp
             THEN /\ Finish(r, PrDetailsError(response))
                  /\ UNCHANGED calls
             ELSE /\ calls' = [calls EXCEPT ![r] = Append(@, "diff")]
                  /\ pc' = [pc EXCEPT ![r] = "await_diff"]
                  /\ UNCHANGED <<resp, loop, github_token, headers>>
    /\ UNCHANGED <<sessions, client_secret, pr_url, ref, diff_response, completion, cb_vars,
                   user_reply, parse_vars>>

\* lines 266-267
DiffError(response) ==
    IF response.status # 200
    THEN HttpError(400, <<"Failed to fetch PR diff">>)
    ELSE NoResp

\* a plausible slip: the LLM is called whatever the diff fetch answered
DiffResponse_NoCheck(r) ==
    /\ loop = 0
    /\ pc[r] = "await_diff"
    /\ \E response \in DiffResponses :
          diff_response' = [diff_response EXCEPT ![r] = response]
    /\ calls' = [calls EXCEPT ![r] = Append(@, "llm")]
    /\ pc' = [pc EXCEPT ![r] = "llm_call"]
    /\ loop' = r
    /\ UNCHANGED <<sessions, client_secret, pr_url, github_token, ref, headers,
                   pr_response, completion, resp, cb_vars, user_reply, parse_vars>>

\* lines 261-272: the diff response arrives; groq_review_pull_request is called.
\* The call is synchronous: the handler keeps the event loop while it waits.
DiffResponse(r) ==
    /\ loop = 0
    /\ pc[r] = "await_diff"
    /\ \E response \in DiffResponses :
          /\ diff_response' = [diff_response EXCEPT ![r] = response]
          /\ IF DiffError(response) # NoResp
             THEN /\ Finish(r, DiffError(response))
                  /\ UNCHANGED calls
             ELSE /\ calls' = [calls EXCEPT ![r] = Append(@, "llm")]
                  /\ pc' = [pc EXCEPT ![r] = "llm_call"]
                  /\ loop' = r
                  /\ UNCHANGED <<resp, github_token, headers>>
    /\ UNCHANGED <<sessions, client_secret, pr_url, ref, pr_response, completion, cb_vars,
                   user_reply, parse_vars>>

\* groq_api.py:57-68 and main.py:272-289: the LLM call ends
LlmReturn(r) ==
    /\ loop = r
    /\ pc[r] = "llm_call"
    /\ \E c \in Completions :
          /\ completion' = [completion EXCEPT ![r] = c]
          /\ Finish(r, ReviewResponse(groq_review_pull_request(c), ref[r].number))
    /\ UNCHANGED <<sessions, client_secret, pr_url, ref, pr_response, diff_response, calls, cb_vars,
                   user_reply, parse_vars>>

(***************************************************************************)
(* GET /auth/github/callback (src/main.py:116-165).                        *)
(***************************************************************************)
CbFinish(c, response) ==
    /\ cb_resp' = [cb_resp EXCEPT ![c] = response]
    /\ cb_pc' = [cb_pc EXCEPT ![c] = "done"]
    /\ cb_access_token' = [cb_access_token EXCEPT ![c] = <<>>]

\* lines 119-132: the callback arrives; the code is posted for a token
ReceiveCallback(c) ==
    /\ loop = 0
    /\ cb_pc[c] \in {"idle", "done"}
    /\ IF client_secret
       THEN /\ cb_pc' = [cb_pc EXCEPT ![c] = "await_token"]
            /\ cb_resp' = [cb_resp EXCEPT ![c] = NoResp]
            /\ UNCHANGED cb_access_token
       ELSE CbFinish(c, HttpError(500, <<"GitHub OAuth not configured">>))
    /\ UNCHANGED <<sessions, client_secret, loop, review_vars, user_reply, parse_vars>>

\* lines 134-147: the token response arrives; the user is fetched
TokenResponse(c) ==
    /\ loop = 0
    /\ cb_pc[c] = "await_token"
    /\ \/ CbFinish(c, HttpError(400, <<"Failed to get access token">>))
       \/ CbFinish(c, HttpError(400, <<"No access token received">>))
       \/ /\ \E t \in AccessTokens : cb_access_token' = [cb_access_token EXCEPT ![c] = t]
          /\ cb_pc' = [cb_pc EXCEPT ![c] = "await_user"]
          /\ UNCHANGED cb_resp
    /\ UNCHANGED <<sessions, client_secret, loop, review_vars, user_reply, parse_vars>>

\* a plausible slip: the record of an earlier login is kept (dict.setdefault)
StoreSession_KeepFirst(sess, access_token, user_data) ==
    [h \in DOMAIN sess \cup {SessionId(user_data)} |->
        IF h \in DOMAIN sess THEN sess[h]
        ELSE [access_token |-> access_token, user |-> user_data]]

\* lines 155-159: sessions[session_id] = {...}
StoreSession(sess, access_token, user_data) ==
    [h \in DOMAIN sess \cup {SessionId(user_data)} |->
        IF h = SessionId(user_data)
        THEN [access_token |-> access_token, user |-> user_data]
        ELSE sess[h]]

\* lines 149-165: the user response arrives; the session is stored
UserResponse(c) ==
    /\ loop = 0
    /\ cb_pc[c] = "await_user"
    /\ \/ /\ CbFinish(c, HttpError(400, <<"Failed to get user info">>))
          /\ UNCHANGED sessions
       \/ \E id \in UserIds :
             /\ sessions' = StoreSession(sessions, cb_access_token[c], UserData(id))
             /\ CbFinish(c, [status |-> 307,
                             detail |-> <<"/login?session_id=">> \o SessionId(UserData(id)),
                             body |-> EmptyDict])
    /\ UNCHANGED <<client_secret, loop, review_vars, user_reply, parse_vars>>

(***************************************************************************)
(* GET /api/user (src/main.py:167-173): no await, one step of the loop.    *)
(***************************************************************************)
SessionInputs == {<<"session_", id>> : id \in UserIds} \cup {<<"session_", "x">>}

GetCurrentUser(session_id) ==
    /\ loop = 0
    /\ user_reply' =
          IF session_id \notin DOMAIN sessions
          THEN HttpError(401, <<"Invalid session">>)
          ELSE [status |-> 200, detail |-> <<>>, body |-> sessions[session_id].user]
    /\ UNCHANGED <<sessions, client_secret, loop, review_vars, cb_vars, parse_vars>>

(***************************************************************************)
(* The service.                                                            *)
(***************************************************************************)
ReviewStep(r) ==
    \/ ReceiveReview(r)
    \/ ParseUrl(r)
    \/ ResolveToken(r)
    \/ PrDetailsResponse(r)
    \/ DiffResponse(r)
    \/ LlmReturn(r)

CallbackStep(c) ==
    \/ ReceiveCallback(c)
    \/ TokenResponse(c)
    \/ UserResponse(c)

Next ==
    \/ \E r \in Requests : ReviewStep(r)
    \/ \E c \in Callbacks : CallbackStep(c)
    \/ \E s \in SessionInputs : GetCurrentUser(s)

Spec == Init /\ [][Next]_vars

(***************************************************************************)
(* extract_pr_info called alone, on every argument written as              *)
(*     pad head owner "/" repo "/" word "/" digits tail                    *)
(* with each part drawn from a set that holds well-formed and ill-formed   *)
(* choices.                                                                *)
(***************************************************************************)
Pads == SeqsUpTo({" ", "@"}, MaxPad)

Heads ==
    Range(patterns)
    \cup {<<"https:", "/", "/", "www.", "github.com", "/">>, <<"gitlab.com", "/">>, <<>>}

Segments == {<<>>, <<"a">>, <<"B", "a">>, <<" ">>, <<"a", " ", "B">>}

Words == {"pull", "pulls"}

Numbers == SeqsUpTo(Digits, MaxDigits)

Tails == {<<>>, <<" ">>, <<"/", "files">>, <<"a">>}

UrlParts ==
    [pad : Pads, head : Heads, owner : Segments, repo : Segments, word : Words,
     digits : Numbers, tail : Tails]

Join(p) ==
    p.pad \o p.head \o p.owner \o <<"/">> \o p.repo \o <<"/", p.word, "/">> \o p.digits
          \o p.tail

InitParse ==
    /\ InitService
    /\ url_parts \in UrlParts
    /\ url_arg = Join(url_parts)
    /\ url_result = Pending

Returned(m) ==
    [done |-> TRUE, ok |-> m.ok, owner |-> m.owner, repo |-> m.repo, number |-> m.number]

ExtractCall ==
    /\ ~url_result.done
    /\ url_result' = Returned(extract_pr_info(url_arg))
    /\ UNCHANGED <<sessions, client_secret, loop, review_vars, cb_vars, user_reply,
                   url_parts, url_arg>>

NextParse == ExtractCall

SpecParse == InitParse /\ [][NextParse]_vars

(***************************************************************************)
(* The accepted URL shapes, stated without the matcher.                    *)
(***************************************************************************)
AllIn(s, S) == \A i \in 1..Len(s) : s[i] \in S

ShapeHeads ==
    {<<"github.com", "/">>,
     <<"http:", "/", "/", "github.com", "/">>,
     <<"https:", "/", "/", "github.com", "/">>,
     <<"www.", "github.com", "/">>}

\* the parts after the pad spell one of the three shapes, whitespace after it
ShapeParts(p) ==
    /\ p.head \in ShapeHeads
    /\ p.owner # <<>> /\ "/" \notin Range(p.owner)
    /\ p.repo # <<>> /\ "/" \notin Range(p.repo)
    /\ p.word = "pull"
    /\ p.digits # <<>>
    /\ AllIn(p.tail, Whitespace)

\* whitespace, then at most one "@"
PadOneAt(pad) ==
    \E k \in 0..Len(pad) :
       /\ AllIn(SubSeq(pad, 1, k), Whitespace)
       /\ SubSeq(pad, k + 1, Len(pad)) \in {<<>>, <<"@">>}

\* whitespace, then any number of "@"
PadAts(pad) ==
    \E k \in 0..Len(pad) :
       /\ AllIn(SubSeq(pad, 1, k), Whitespace)
       /\ AllIn(SubSeq(pad, k + 1, Len(pad)), {"@"})

Expected(p) ==
    [done |-> TRUE, ok |-> TRUE, owner |-> p.owner, repo |-> p.repo,
     number |-> ParseInt(p.digits)]

\* c begins with head owner/repo/pull/digit for one of the shapes
ShapePrefix(c) ==
    \E h \in ShapeHeads :
       /\ StartsWith(c, h)
       /\ \E i \in 1..Len(c), j \in 1..Len(c) :
             LET o == Len(h) + i
                 q == o + 1 + j
             IN  /\ q + 4 <= Len(c)
                 /\ "/" \notin Range(SubSeq(c, Len(h) + 1, o))
                 /\ c[o + 1] = "/"
                 /\ "/" \notin Range(SubSeq(c, o + 2, q))
                 /\ SubSeq(c, q + 1, q + 3) = <<"/", "pull", "/">>
                 /\ c[q + 4] \in Digits

\* whitespace trimmed, then one leading "@" removed
CleanOneAt(s) ==
    IF Strip(s) # <<>> /\ Head(Strip(s)) = "@" THEN Tail(Strip(s)) ELSE Strip(s)

\* whitespace trimmed, then every leading "@" removed
CleanAts(s) == LStripSet(Strip(s), {"@"})

(***************************************************************************)
(* Claims about extract_pr_info, checked under SpecParse.                  *)
(***************************************************************************)
\* the argument with an "@" put between the leading whitespace and the URL
WithAt(p) == Join([p EXCEPT !.pad = p.pad \o <<"@">>])

\* C6 as written: an argument in one of the three shapes, inside optional
\* whitespace and after at most one "@", gives exactly (owner, repo, number);
\* with the "@" and without it the result is the same; and an argument that,
\* once trimmed and rid of one leading "@", begins with none of the shapes fails.
C6_ShapesOneAt ==
    url_result.done =>
       /\ ShapeParts(url_parts) /\ PadOneAt(url_parts.pad)
             => url_result = Expected(url_parts)
       /\ ShapeParts(url_parts) /\ AllIn(url_parts.pad, Whitespace)
             => Returned(extract_pr_info(WithAt(url_parts))) = url_result
       /\ ~ShapePrefix(CleanOneAt(url_arg)) => ~url_result.ok

\* C6 amended: the same with every leading "@" removed, not only one: an
\* argument in one of the shapes after whitespace and any number of "@" gives
\* exactly (owner, repo, number), and an argument that, once trimmed and rid of
\* all its leading "@", begins with none of the shapes fails.
C6_ShapesAnyAt ==
    url_result.done =>
       /\ ShapeParts(url_parts) /\ PadAts(url_parts.pad)
             => url_result = Expected(url_parts)
       /\ ShapeParts(url_parts) /\ AllIn(url_parts.pad, Whitespace)
             => Returned(extract_pr_info(WithAt(url_parts))) = url_result
       /\ ~ShapePrefix(CleanAts(url_arg)) => ~url_result.ok

\* an argument with whitespace and an "@" before a well-formed URL was parsed
C6_Witness ==
    /\ url_result.done /\ url_result.ok
    /\ ShapeParts(url_parts)
    /\ url_parts.pad = <<" ", "@">>
    /\ url_parts.head = <<"www.", "github.com", "/">>
    /\ url_parts.owner = <<"B", "a">>
    /\ url_result.number = 70

\* C7: every reference extract_pr_info returns has a non-empty owner and repo
\* without a slash and a number above 0.
C7_PRReference ==
    url_result.done /\ url_result.ok =>
       /\ url_result.owner # <<>> /\ "/" \notin Range(url_result.owner)
       /\ url_result.repo # <<>> /\ "/" \notin Range(url_result.repo)
       /\ url_result.number > 0

(***************************************************************************)
(* Claims about the service, checked under Spec.                           *)
(***************************************************************************)
Done(r) == pc[r] = "done"

Non2xx(status) == status # 0 /\ (status < 200 \/ status >= 300)

Bearer(credential) == <<"token ">> \o credential

IsHandle(s) == s # <<>> /\ s[1] = "session_"

\* C1: in the step that resolves the credential of a request whose URL parsed:
\* no token or an empty one ends in 401; a token beginning "session_" that is
\* no key of the session map ends in 401; one that is a key sends the access
\* token stored under it; any other token is sent as it is.
C1_CredentialResolution ==
    [][\A r \in Requests :
          pc[r] = "resolve" /\ pc'[r] # "resolve" =>
             LET t == github_token[r]
                 sent == headers'[r]
             IN  /\ ~t.present \/ t.s = <<>>
                       => pc'[r] = "done" /\ resp'[r].status = 401 /\ calls'[r] = <<>>
                 /\ t.present /\ IsHandle(t.s) /\ t.s \notin DOMAIN sessions
                       => pc'[r] = "done" /\ resp'[r].status = 401 /\ calls'[r] = <<>>
                 /\ t.present /\ IsHandle(t.s) /\ t.s \in DOMAIN sessions
                       => /\ pc'[r] = "await_pr"
                          /\ DOMAIN sent = {"Authorization"}
                          /\ sent["Authorization"] = Bearer(sessions[t.s].access_token)
                 /\ t.present /\ t.s # <<>> /\ ~IsHandle(t.s)
                       => /\ pc'[r] = "await_pr"
                          /\ DOMAIN sent = {"Authorization"}
                          /\ sent["Authorization"] = Bearer(t.s)]_vars

\* a request sent GitHub the access token stored under its session id
C1_Witness ==
    \E r \in Requests :
       /\ pc[r] = "await_pr"
       /\ github_token[r].s \in DOMAIN sessions
       /\ headers[r]["Authorization"] = Bearer(sessions[github_token[r].s].access_token)

\* the LLM call failed in transport, answered non-2xx, or replied with text
\* that is no JSON document once the fences are stripped
LlmFailed(c) ==
    \/ c.kind \in {"transport", "http_error"}
    \/ c.kind = "reply" /\ StripFences(c.text) # <<"DOC">>

C3_PrNumberInResponse ==
    \A r \in Requests :
       Done(r) /\ resp[r].status = 200 =>
          /\ ResponseFields \cup {"pr_number"} \subseteq DOMAIN resp[r].body
          /\ resp[r].body["pr_number"] = ToString(extract_pr_info(pr_url[r]).number)

\* a reply without its Markdown fence: a leading FENCE (with or without "json")
\* and a trailing FENCE removed
Unfenced(text) ==
    LET a == Strip(text)
        b == IF StartsWith(a, <<"FENCE", "json">>) THEN Drop(a, 3)
             ELSE IF StartsWith(a, <<"FENCE">>) THEN Drop(a, 2)
             ELSE a
        c == IF b # <<>> /\ b[Len(b)] = "FENCE" THEN SubSeq(b, 1, Len(b) - 1) ELSE b
    IN  Strip(c)

\* the normalisation of a reply object
NormalizedAs(body, fields) ==
    /\ DOMAIN body = ResponseFields
    /\ body["summary"] = Get(fields, "review", "\"Review completed\"")
    /\ body["issues"] = Get(fields, "errors", "[]")
    /\ body["suggestions"] = "[]"
    /\ body["score"] = Get(fields, "review_score", "0")

\* C4: for a reply that is a JSON object once its fences are removed, a
\* successful response is normalised (review or "Review completed", errors or
\* [], no suggestions, review_score or 0), and the response is the one the same
\* reply gets without its fences.
C4_NormalizedAndFenceBlind ==
    \A r \in Requests :
       LET c == completion[r]
       IN  Done(r) /\ c.kind = "reply" /\ Unfenced(c.text) = <<"DOC">> /\ c.doc.kind = "object" =>
              /\ resp[r].status = 200 => NormalizedAs(resp[r].body, c.doc.fields)
              /\ resp[r] = ReviewResponse(
                              groq_review_pull_request([c EXCEPT !.text = Unfenced(c.text)]),
                              ref[r].number)

\* C5 as written: a non-2xx answer to the PR-details fetch or to the diff fetch,
\* whatever its status, ends the request with 400 and a detail that holds the
\* message of GitHub's response.
C5_Always400WithMessage ==
    \A r \in Requests :
       /\ Done(r) /\ Non2xx(pr_response[r].status) =>
             /\ resp[r].status = 400
             /\ "message" \in DOMAIN pr_response[r].fields
                   => pr_response[r].fields["message"] \in Range(resp[r].detail)
       /\ Done(r) /\ Non2xx(diff_response[r].status) =>
             /\ resp[r].status = 400
             /\ "message" \in DOMAIN diff_response[r].fields
                   => diff_response[r].fields["message"] \in Range(resp[r].detail)

\* C5 amended: a non-2xx answer to the PR-details fetch ends the request with
\* 401 when its status is 401, else with 400 and the detail "Failed to fetch PR
\* details: " followed by the message of the answer ("Unknown error" when it has
\* none) when its body is a JSON object, else with 500; a non-2xx answer to the
\* diff fetch ends it with 400 and the fixed detail "Failed to fetch PR diff".
C5_FetchFailures ==
    \A r \in Requests :
       /\ Done(r) /\ Non2xx(pr_response[r].status) =>
             IF pr_response[r].status = 401 THEN resp[r].status = 401
             ELSE IF pr_response[r].kind = "object"
             THEN /\ resp[r].status = 400
                  /\ resp[r].detail =
                        <<"Failed to fetch PR details: ",
                          Get(pr_response[r].fields, "message", "Unknown error")>>
             ELSE resp[r].status = 500
       /\ Done(r) /\ Non2xx(diff_response[r].status) =>
             /\ resp[r].status = 400
             /\ resp[r].detail = <<"Failed to fetch PR diff">>

\* a 401 of the PR-details fetch was answered with 401, not 400
C5_Witness ==
    \E r \in Requests :
       Done(r) /\ pr_response[r].status = 401 /\ resp[r].status = 401

\* C8 as written: a session record, once stored, is never changed or removed.
C8_NeverChanged ==
    [][\A h \in DOMAIN sessions : h \in DOMAIN sessions' /\ sessions'[h] = sessions[h]]_vars

\* the step in which callback c gets the user and redirects to session id h
Stores(c, h) ==
    /\ cb_pc[c] = "await_user"
    /\ cb_resp'[c].status = 307
    /\ cb_resp'[c].detail = <<"/login?session_id=">> \o h

\* C8 amended: a session record is never removed, and no step of a review
\* request or of GET /api/user writes the session map; the record under a
\* session id changes only in a successful OAuth callback of that GitHub user,
\* which replaces it with the callback's access token and user object.
C8_OnlyCallbackReplaces ==
    [][/\ \A h \in DOMAIN sessions :
             /\ h \in DOMAIN sessions'
             /\ sessions'[h] # sessions[h] => \E c \in Callbacks : Stores(c, h)
       /\ \A c \in Callbacks, id \in UserIds :
             Stores(c, SessionId(UserData(id))) =>
                /\ SessionId(UserData(id)) \in DOMAIN sessions'
                /\ sessions'[SessionId(UserData(id))] =
                      [access_token |-> cb_access_token[c], user |-> UserData(id)]
       /\ (\E r \in Requests : pc'[r] # pc[r]) \/ user_reply' # user_reply
             => sessions' = sessions]_vars

\* a request still holds the access token of a record that a later login replaced
C8_Witness ==
    \E r \in Requests :
       /\ pc[r] = "await_pr"
       /\ github_token[r].s \in DOMAIN sessions
       /\ headers[r]["Authorization"] # Bearer(sessions[github_token[r].s].access_token)

\* C9: while a review request waits for its LLM call, every other review
\* request can take its next step (arrive, or go on with an answer of GitHub)
\* and GET /api/user can be served.
C9_NoBlocking ==
    \A r \in Requests :
       pc[r] = "llm_call" =>
          /\ \A q \in Requests \ {r} : ENABLED ReviewStep(q)
          /\ ENABLED (\E s \in SessionInputs : GetCurrentUser(s))

AllCalls == <<"pr_details", "diff", "llm">>

\* C10: a request makes its outbound calls in the order PR details, diff, LLM,
\* each at most once; a call is made only after the URL parsed, the credential
\* resolved and the earlier fetches answered 200; a failed stage ends the
\* request with an error and no later call (an unparsable URL gives 400 and a
\* missing token or unknown session 401, with no call at all).
C10_SequentialPass ==
    \A r \in Requests :
       /\ \E n \in 0..3 : calls[r] = SubSeq(AllCalls, 1, n)
       /\ calls[r] # <<>> => extract_pr_info(pr_url[r]).ok /\ ref[r].ok
       /\ pc[r] \in {"await_pr", "await_diff", "llm_call"}
             => "Authorization" \in DOMAIN headers[r]
       /\ Len(calls[r]) >= 2 => pr_response[r].status = 200
       /\ Len(calls[r]) = 3 => diff_response[r].status = 200
       /\ pc[r] = "await_pr" => calls[r] = SubSeq(AllCalls, 1, 1)
       /\ pc[r] = "await_diff" => calls[r] = SubSeq(AllCalls, 1, 2)
       /\ pc[r] = "llm_call" => calls[r] = AllCalls
       /\ ~Done(r) => resp[r] = NoResp
       /\ Done(r) =>
             /\ resp[r].status \in {200, 400, 401, 500}
             /\ ~extract_pr_info(pr_url[r]).ok => resp[r].status = 400 /\ calls[r] = <<>>
             /\ resp[r].status = 401 /\ pr_response[r].status = 0 => calls[r] = <<>>
             /\ pr_response[r].status \notin {0, 200}
                   => calls[r] = SubSeq(AllCalls, 1, 1) /\ resp[r].status # 200
             /\ diff_response[r].status \notin {0, 200}
                   => calls[r] = SubSeq(AllCalls, 1, 2) /\ resp[r].status # 200
             /\ resp[r].status = 200 => calls[r] = AllCalls

\* a request went through all three calls and was answered with a review
C10_Witness ==
    \E r \in Requests :
       Done(r) /\ resp[r].status = 200 /\ calls[r] = AllCalls /\ diff_response[r].status = 200

====
